---- MODULE Spec2Model ----
(***************************************************************************)
(* Neuron dynamics of Models/Neuron.py: LIF, ELIF and AddaptiveELIF.       *)
(*                                                                         *)
(* Numbers.  Times (t, dt, delay, duration) are integers.  Every other     *)
(* quantity (potentials, threshold, currents, weights, w) is an exact      *)
(* rational <<numerator, denominator>> in lowest terms with a positive     *)
(* denominator.  The time constants used below are powers of two, so the   *)
(* Python floats of the program are dyadic and its arithmetic is exact:    *)
(* the rationals are then the very values the program computes.            *)
(***************************************************************************)
EXTENDS Integers, Sequences, FiniteSets, TLC

(* ------------------------------ bounds -------------------------------- *)
\* Last simulated time of a run (the driving loop stops there).
MaxT == 2
\* Number of neuron operations the free driver of Spec issues in one run.
MaxCalls == 4
\* Largest exponent the model of np.exp keeps apart (see ExpModel).
MaxExp == 6

(* ---------------------------- arithmetic ------------------------------ *)
Abs(x) == IF x < 0 THEN -x ELSE x

RECURSIVE GCD(_, _)
GCD(x, y) == IF y = 0 THEN x ELSE GCD(y, x % y)

Norm(n, d) == LET g == GCD(Abs(n), d) IN <<n \div g, d \div g>>

Q(n) == <<n, 1>>

Add(x, y) == Norm(x[1] * y[2] + y[1] * x[2], x[2] * y[2])

Neg(x) == <<-x[1], x[2]>>

Sub(x, y) == Add(x, Neg(y))

Mul(x, y) == Norm(x[1] * y[1], x[2] * y[2])

Div(x, y) == IF y[1] > 0 THEN Norm(x[1] * y[2], x[2] * y[1])
                         ELSE Norm(-(x[1] * y[2]), -(x[2] * y[1]))

Geq(x, y) == x[1] * y[2] >= y[1] * x[2]

Less(x, y) == ~Geq(x, y)

Floor(x) == x[1] \div x[2]

RECURSIVE Pow2(_)
Pow2(k) == IF k = 0 THEN 1 ELSE 2 * Pow2(k - 1)

\* np.exp, abstracted to a strictly positive, non-decreasing step function:
\* 2^floor(x), saturating at 2^MaxExp as the float saturates at inf.
ExpModel(x) == LET f == Floor(x) IN
               IF f >= MaxExp THEN <<Pow2(MaxExp), 1>>
               ELSE IF f >= 0 THEN <<Pow2(f), 1>>
               ELSE IF f <= -MaxExp THEN <<1, Pow2(MaxExp)>>
               ELSE <<1, Pow2(-f)>>

Last(s) == s[Len(s)]

\* Mutant of Front: nothing is removed.
FrontWithoutPop(s) == s

Front(s) == SubSeq(s, 1, Len(s) - 1)

(* ------------------------------ state --------------------------------- *)
Neurons == {1, 2}

VARIABLES
    neuron,          \* per neuron: the attributes fixed at construction/assembly
    threshold,       \* per neuron: self.threshold
    is_inh,          \* per neuron: self.is_inh
    u,               \* per neuron: self._u
    w,               \* per neuron: self.__w (AddaptiveELIF)
    spike_times,     \* per neuron: self.spike_times
    potential_list,  \* per neuron: self.potential_list
    input,           \* per neuron: self.input when it is an array (array mode)
    input_acc,       \* per neuron: self.input when it is a scalar (scalar mode)
    sim,             \* the run: dt, the stepping mode, whether t is a NumPy scalar
    t,               \* the driving loop's current time
    pc,              \* the driving loop's position
    calls,           \* operations issued so far by the free driver
    err,             \* the exception that ended the run, or "none"
    last             \* the last operation performed

vars == <<neuron, threshold, is_inh, u, w, spike_times, potential_list, input,
          input_acc, sim, t, pc, calls, err, last>>

dt == sim.dt

(* --------------------------- construction ----------------------------- *)
Kinds == {"LIF", "ELIF", "AddaptiveELIF"}

\* regularize=None is the empty sequence; otherwise <<on spike, otherwise>>.
NoRegularize == <<>>

Regularized(n) == Len(neuron[n].regularize) > 0

\* A current array holding the same value at every step of the run.
ConstantCurrent(i, steps) == [k \in 1..steps |-> i]

\* LIF.__init__ / ELIF.__init__ / AddaptiveELIF.__init__: the attributes that
\* never change afterwards, together with duration and target_synapses, which
\* the network assembly assigns before the run.  ELIF and AddaptiveELIF take no
\* regularize argument, so theirs is None.
NewNeuron(kind, tau, thr, current, regularize, duration, synapses) ==
    [kind            |-> kind,
     tau             |-> tau,
     u_rest          |-> Q(-1),
     r               |-> Q(2),
     threshold       |-> thr,
     current_list    |-> current,
     regularize      |-> IF kind = "LIF" THEN regularize ELSE NoRegularize,
     delta_t         |-> Q(1),
     theta_rh        |-> Q(0),
     tau_w           |-> Q(2),
     w               |-> IF kind = "AddaptiveELIF" THEN Q(1) ELSE Q(0),
     a               |-> Q(1),
     b               |-> Q(1),
     duration        |-> duration,
     target_synapses |-> synapses]

Synapse(post, delay, weight) == [post |-> post, delay |-> delay, w |-> weight]

\* The network of Spec: neuron 1 reaches neuron 2 through two synapses of
\* different delay; neuron 2 reaches neuron 1 and itself.
Synapses1 == <<Synapse(2, 0, Q(2)), Synapse(2, 1, Q(1))>>

Synapses2 == <<Synapse(1, 0, Q(1)), Synapse(2, 0, Q(1))>>

Zeros(len) == [k \in 1..len |-> Q(0)]

\* The state right after construction (lines 36-46) and assembly.
Constructed(neurons, run) ==
    /\ neuron = neurons
    /\ threshold = [n \in Neurons |-> neurons[n].threshold]
    /\ is_inh = [n \in Neurons |-> FALSE]
    /\ u = [n \in Neurons |-> neurons[n].u_rest]
    /\ w = [n \in Neurons |-> neurons[n].w]
    /\ spike_times = [n \in Neurons |-> <<>>]
    /\ potential_list = [n \in Neurons |-> <<>>]
    /\ input = [n \in Neurons |-> IF run.mode = "array"
                                  THEN Zeros(neurons[n].duration) ELSE <<>>]
    /\ input_acc = [n \in Neurons |-> Q(0)]
    /\ sim = run
    /\ t = 0
    /\ calls = 0
    /\ err = "none"
    /\ last = [op |-> "init", n |-> 0, t |-> 0, spiked |-> FALSE, ret |-> <<>>]

\* A position of the driving loop: what it does next, and to which neuron.
At(phase, n) == [phase |-> phase, n |-> n]

Runs == [dt : {1, 2}, mode : {"array", "scalar"}, t_numpy : BOOLEAN]

Init ==
    \E run \in Runs, kind \in Kinds, i \in {Q(1), Q(2)},
       reg \in {NoRegularize, <<Q(1), <<1, 2>>>>},
       dur \in {<<3, 3>>, <<4, 2>>} :
        /\ kind # "LIF" => reg = NoRegularize
        \* only AddaptiveELIF ever looks at the type of t
        /\ kind # "AddaptiveELIF" => run.t_numpy
        /\ pc = At("free", 0)
        /\ Constructed(
             <<NewNeuron(kind, Q(2), Q(1), ConstantCurrent(i, MaxT + 1), reg, dur[1],
                         Synapses1),
               NewNeuron("LIF", Q(2), Q(1), ConstantCurrent(Q(0), MaxT + 1), NoRegularize,
                         dur[2], Synapses2)>>,
             run)

(* ---------------------------- voltage law ----------------------------- *)
\* LIF.current: current_list[t], zero-based.
current(n, idx) == neuron[n].current_list[idx + 1]

\* Mutant of LIF_tau_du_dt: the driving current is left out.
LIF_tau_du_dt_WithoutCurrent(n, i) == Neg(Sub(u[n], neuron[n].u_rest))

\* Mutant of LIF_tau_du_dt: the leak pulls towards 0 instead of u_rest.
LIF_tau_du_dt_LeakToZero(n, i) == Add(Neg(u[n]), Mul(neuron[n].r, i))

\* LIF._tau_du_dt (line 106).
LIF_tau_du_dt(n, i) ==
    Add(Neg(Sub(u[n], neuron[n].u_rest)), Mul(neuron[n].r, i))

\* ELIF._tau_du_dt (line 143).
ELIF_tau_du_dt(n, i) ==
    Add(LIF_tau_du_dt(n, i),
        Mul(neuron[n].delta_t,
            ExpModel(Div(Sub(u[n], neuron[n].theta_rh), neuron[n].delta_t))))

\* AddaptiveELIF._tau_du_dt (line 173).
AddaptiveELIF_tau_du_dt(n, i) ==
    Sub(ELIF_tau_du_dt(n, i), Mul(neuron[n].r, w[n]))

\* self._tau_du_dt, dispatched on the neuron's class.
tau_du_dt(n, i) ==
    CASE neuron[n].kind = "LIF" -> LIF_tau_du_dt(n, i)
      [] neuron[n].kind = "ELIF" -> ELIF_tau_du_dt(n, i)
      [] neuron[n].kind = "AddaptiveELIF" -> AddaptiveELIF_tau_du_dt(n, i)

\* Mutant of du: the derivative is not scaled by dt / tau.
du_Unscaled(n, i) == tau_du_dt(n, i)

\* LIF.__du (line 100).
du(n, i) == Mul(tau_du_dt(n, i), Div(Q(dt), neuron[n].tau))

\* LIF.__new_u, ELIF.__new_u, AddaptiveELIF.__new_u: the same expression.
new_u(n, i) == Add(u[n], du(n, i))

\* int(t / dt) and int(t // dt) for the non-negative integer times of a run.
StepIndex(time) == time \div dt

(* ------------------------- spike propagation -------------------------- *)
\* Mutant of Sign: is_inh is ignored.
SignIgnoringInh(n) == Q(1)

\* (-1) ** int(self.is_inh)
Sign(n) == IF is_inh[n] THEN Q(-1) ELSE Q(1)

\* (-1) ** int(self.is_inh) * synapse.w
Contribution(n, syn) == Mul(Sign(n), syn.w)

\* Mutant of DeliveryTime: the step of the spike itself is not skipped.
DeliveryTimeWithoutDt(time, syn) == time + syn.delay

\* time = t + synapse.delay + dt (line 69)
DeliveryTime(time, syn) == time + syn.delay + dt

\* if time < self.duration (line 70): the spiking neuron's own duration.
Due(n, time, syn) == DeliveryTime(time, syn) < neuron[n].duration

\* int(time // dt) (line 71)
DeliveryIndex(time, syn) == StepIndex(DeliveryTime(time, syn))

\* Indexing an array of length len at zero-based idx raises IndexError
\* unless the index is inside it.
InArray(idx, len) == 0 <= idx /\ idx < len

\* The loop of lines 68-71 from synapse k on, over the input arrays inp.
\* A write outside the postsynaptic array raises and ends the loop there.
RECURSIVE Propagate(_, _, _, _)
Propagate(n, time, k, inp) ==
    IF k > Len(neuron[n].target_synapses)
    THEN [input |-> inp, raised |-> FALSE]
    ELSE LET syn == neuron[n].target_synapses[k]
             idx == DeliveryIndex(time, syn)
         IN  IF ~Due(n, time, syn)
             THEN Propagate(n, time, k + 1, inp)
             ELSE IF ~InArray(idx, Len(inp[syn.post]))
             THEN [input |-> inp, raised |-> TRUE]
             ELSE Propagate(n, time, k + 1,
                    [inp EXCEPT ![syn.post][idx + 1] = Add(@, Contribution(n, syn))])

\* Mutant of Fires: the comparison is turned around.
FiresBelow(x, th) == Geq(th, x)

\* u >= self.threshold (lines 62, 88, 131, 181)
Fires(x, th) == Geq(x, th)

\* self.threshold += self.regularize[0] (line 73)
RegularizeUp(n) == Add(threshold[n], neuron[n].regularize[1])

\* self.threshold -= self.regularize[1] (line 75)
RegularizeDown(n) == Sub(threshold[n], neuron[n].regularize[2])

\* Mutant of Spiked: the reset entry is not recorded.
SpikedWithoutReset(kept, n) == Append(kept, threshold[n])

\* Mutant of Spiked: the threshold entry is not recorded.
SpikedWithoutClamp(kept, n) == Append(kept, neuron[n].u_rest)

\* Mutant of Spiked: one entry too many is popped before the clamp.
SpikedPoppingTwice(kept, n) ==
    Append(Append(Front(kept), threshold[n]), neuron[n].u_rest)

\* The two entries a spike leaves at the end of potential_list, given the
\* entries kept before them (lines 63-67 and 89-92).
Spiked(kept, n) == Append(Append(kept, threshold[n]), neuron[n].u_rest)

\* Mutant of Recorded: the time is appended twice.
RecordedTwice(st, time) == Append(Append(st, time), time)

\* self.spike_times.append(t) (lines 66, 91, 134, 184)
Recorded(st, time) == Append(st, time)

\* LIF._check_spike: everything it assigns, and what it returns.
check_spike(n, time) ==
    LET ul == Last(potential_list[n]) IN
    IF Fires(ul, threshold[n])
    THEN LET d == Propagate(n, time, 1, input) IN
         [potential_list |-> Spiked(Front(potential_list[n]), n),
          spike_times    |-> Recorded(spike_times[n], time),
          input          |-> d.input,
          raised         |-> d.raised,
          threshold      |-> IF ~d.raised /\ Regularized(n)
                             THEN RegularizeUp(n) ELSE threshold[n],
          ret            |-> neuron[n].u_rest,
          spiked         |-> TRUE]
    ELSE [potential_list |-> potential_list[n],
          spike_times    |-> spike_times[n],
          input          |-> input,
          raised         |-> FALSE,
          threshold      |-> IF Regularized(n)
                             THEN RegularizeDown(n) ELSE threshold[n],
          ret            |-> ul,
          spiked         |-> FALSE]

(* ---------------------------- adaptation ------------------------------ *)
\* np.count_nonzero(self.spike_times == t): spike_times is a Python list.
\* With t a NumPy scalar the comparison is element-wise; with t a Python
\* number the list compares unequal to it as a whole and the count is 0.
SpikeCount(st, time) ==
    IF sim.t_numpy THEN Cardinality({k \in 1..Len(st) : st[k] = time}) ELSE 0

\* AddaptiveELIF._tau_dw_dt (lines 175-177), on the spike list st.
tau_dw_dt(n, st, time) ==
    Add(Sub(Mul(neuron[n].a, Sub(u[n], neuron[n].u_rest)), w[n]),
        Mul(Mul(neuron[n].b, neuron[n].tau_w), Q(SpikeCount(st, time))))

\* self.__w + self._tau_dw_dt(t) * (dt / self.tau_w) (lines 169, 190)
new_w(n, st, time) ==
    Add(w[n], Mul(tau_dw_dt(n, st, time), Div(Q(dt), neuron[n].tau_w)))

\* Only AddaptiveELIF overrides compute_spike and step to advance w.
Adapted(n, st, time) ==
    IF neuron[n].kind = "AddaptiveELIF"
    THEN [w EXCEPT ![n] = new_w(n, st, time)] ELSE w

(* ---------------------------- operations ------------------------------ *)
\* What the driver sees of a call: the operation, its neuron and time, whether
\* it recorded a spike, and the value it returned (None is <<>>).
None == <<>>

Did(op, n, spiked, ret) ==
    [op |-> op, n |-> n, t |-> t, spiked |-> spiked, ret |-> ret]

\* LIF.set_inh
set_inh(n) ==
    /\ is_inh' = [is_inh EXCEPT ![n] = TRUE]
    /\ last' = Did("set_inh", n, FALSE, None)
    /\ UNCHANGED <<neuron, threshold, u, w, spike_times, potential_list, input,
                   input_acc, sim, err>>

\* LIF.compute_potential (ELIF and AddaptiveELIF repeat it).
compute_potential(n) ==
    /\ potential_list' = [potential_list EXCEPT
                            ![n] = Append(@, new_u(n, current(n, StepIndex(t))))]
    /\ last' = Did("compute_potential", n, FALSE, new_u(n, current(n, StepIndex(t))))
    /\ UNCHANGED <<neuron, threshold, is_inh, u, w, spike_times, input,
                   input_acc, sim, err>>

\* Mutant of pre_synaptic_du: the resistance is left out.
pre_synaptic_du_WithoutR(n) ==
    Div(Mul(input[n][StepIndex(t) + 1], Q(dt)), neuron[n].tau)

\* self.input[int(t // dt)] * self.r * dt / self.tau (line 56)
pre_synaptic_du(n) ==
    Div(Mul(Mul(input[n][StepIndex(t) + 1], neuron[n].r), Q(dt)), neuron[n].tau)

\* LIF.apply_pre_synaptic.  It raises before assigning anything when the
\* input is no array, the index is outside it or potential_list is empty.
apply_pre_synaptic(n) ==
    /\ sim.mode = "array"
    /\ InArray(StepIndex(t), Len(input[n]))
    /\ Len(potential_list[n]) > 0
    /\ potential_list' = [potential_list EXCEPT
                            ![n][Len(potential_list[n])] = Add(@, pre_synaptic_du(n))]
    /\ last' = Did("apply_pre_synaptic", n, FALSE, pre_synaptic_du(n))
    /\ UNCHANGED <<neuron, threshold, is_inh, u, w, spike_times, input,
                   input_acc, sim, err>>

\* LIF.compute_spike and AddaptiveELIF.compute_spike.  An IndexError raised
\* by the delivery leaves what _check_spike had assigned by then and ends
\* the run before _u, threshold and w are assigned.
compute_spike(n) ==
    /\ sim.mode = "array"
    /\ Len(potential_list[n]) > 0
    /\ LET c == check_spike(n, t) IN
        /\ potential_list' = [potential_list EXCEPT ![n] = c.potential_list]
        /\ spike_times' = [spike_times EXCEPT ![n] = c.spike_times]
        /\ input' = c.input
        /\ threshold' = [threshold EXCEPT ![n] = c.threshold]
        /\ IF c.raised
           THEN /\ err' = "IndexError"
                /\ UNCHANGED <<u, w>>
           ELSE /\ err' = err
                /\ w' = Adapted(n, c.spike_times, t)
                /\ u' = [u EXCEPT ![n] = c.ret]
        /\ last' = Did("compute_spike", n, c.spiked, None)
    /\ UNCHANGED <<neuron, is_inh, input_acc, sim>>

\* synapse.post.input += x (lines 94, 137, 187): on a scalar input it adds x;
\* on a NumPy array it adds x to every entry in place.
RECURSIVE Accumulate(_, _, _, _)
Accumulate(n, k, arr, acc) ==
    IF k > Len(neuron[n].target_synapses)
    THEN [input |-> arr, input_acc |-> acc]
    ELSE LET syn == neuron[n].target_synapses[k]
             x == Contribution(n, syn)
         IN  IF sim.mode = "scalar"
             THEN Accumulate(n, k + 1, arr, [acc EXCEPT ![syn.post] = Add(@, x)])
             ELSE Accumulate(n, k + 1,
                    [arr EXCEPT ![syn.post] =
                        [j \in 1..Len(arr[syn.post]) |-> Add(arr[syn.post][j], x)]],
                    acc)

\* What LIF.step, ELIF.step and AddaptiveELIF.step assign to the neuron's own
\* attributes, from the potential list pl.
StepOutcome(n, pl) ==
    LET un == new_u(n, current(n, StepIndex(t)))
        fired == Fires(un, threshold[n])
    IN  [potential_list |-> IF fired THEN Spiked(pl, n) ELSE Append(pl, un),
         spike_times    |-> IF fired THEN Recorded(spike_times[n], t)
                                     ELSE spike_times[n],
         u              |-> IF fired THEN neuron[n].u_rest ELSE un,
         fired          |-> fired]

\* LIF.step, ELIF.step and AddaptiveELIF.step.
step(n) ==
    LET s == StepOutcome(n, potential_list[n])
        d == IF s.fired THEN Accumulate(n, 1, input, input_acc)
                        ELSE [input |-> input, input_acc |-> input_acc]
    IN  /\ potential_list' = [potential_list EXCEPT ![n] = s.potential_list]
        /\ spike_times' = [spike_times EXCEPT ![n] = s.spike_times]
        /\ input' = d.input
        /\ input_acc' = d.input_acc
        /\ w' = Adapted(n, s.spike_times, t)
        /\ u' = [u EXCEPT ![n] = s.u]
        /\ last' = Did("step", n, s.fired, None)
        /\ UNCHANGED <<neuron, threshold, is_inh, sim, err>>

\* range(1, 6) (line 109)
ResetWindow == 5

\* Mutant of Smooth: every entry of the window is updated from the value its
\* predecessor had before the call.
SmoothFromOld(n, alpha, i, buf) ==
    [j \in 1..Len(buf) |->
        IF /\ j - 1 - StepIndex(t) \in i..ResetWindow
           /\ t + (j - 1 - StepIndex(t)) < neuron[n].duration
        THEN Add(buf[j], Mul(buf[j - 1], alpha)) ELSE buf[j]]

\* The loop of LIF.reset from i on, over the neuron's own input array buf.
RECURSIVE Smooth(_, _, _, _)
Smooth(n, alpha, i, buf) ==
    IF i > ResetWindow THEN buf
    ELSE IF t + i < neuron[n].duration
    THEN Smooth(n, alpha, i + 1,
           [buf EXCEPT ![StepIndex(t) + i + 1] =
               Add(@, Mul(buf[StepIndex(t) + i], alpha))])
    ELSE Smooth(n, alpha, i + 1, buf)

\* LIF.reset
reset(n, alpha) ==
    /\ sim.mode = "array"
    /\ input' = [input EXCEPT ![n] = Smooth(n, alpha, 1, @)]
    /\ last' = Did("reset", n, FALSE, None)
    /\ UNCHANGED <<neuron, threshold, is_inh, u, w, spike_times, potential_list,
                   input_acc, sim, err>>

(* ------------------------ the free driving loop ----------------------- *)
\* Any neuron operation, in any order, at the current time, until an
\* exception ends the run.
Free ==
    /\ pc.phase = "free"
    /\ err = "none"
    /\ calls < MaxCalls
    /\ calls' = calls + 1
    /\ UNCHANGED <<t, pc>>

CallSetInh == \E n \in Neurons : Free /\ ~is_inh[n] /\ set_inh(n)

CallComputePotential == \E n \in Neurons : Free /\ compute_potential(n)

CallApplyPreSynaptic == \E n \in Neurons : Free /\ apply_pre_synaptic(n)

CallComputeSpike == \E n \in Neurons : Free /\ compute_spike(n)

CallStep == \E n \in Neurons : Free /\ step(n)

\* The values of alpha the driver passes to reset.
ResetAlphas == {<<1, 2>>}

CallReset == \E n \in Neurons, alpha \in ResetAlphas : Free /\ reset(n, alpha)

\* The loop advances the shared time by dt.
Tick ==
    /\ pc.phase = "free"
    /\ err = "none"
    /\ t + dt <= MaxT
    /\ t' = t + dt
    /\ UNCHANGED <<neuron, threshold, is_inh, u, w, spike_times, potential_list,
                   input, input_acc, sim, pc, calls, err, last>>

Next ==
    \/ CallSetInh
    \/ CallComputePotential
    \/ CallApplyPreSynaptic
    \/ CallComputeSpike
    \/ CallStep
    \/ CallReset
    \/ Tick

Spec == Init /\ [][Next]_vars

(* --------------------- the synchronous driving loop ------------------- *)
\* Last simulated time of a run of the synchronous loop.
MaxDriveT == 4

\* In the network of SpecDrive neuron 1 receives no synapse; it either reaches
\* neuron 2 or has no outgoing synapse.  The constructor accepts a threshold
\* below u_rest (lines 28-46 validate nothing), so InitDrive draws one too.
DriveSynapses1 == <<Synapse(2, 0, Q(2))>>

DriveSynapses2 == <<>>

FirstPhase(mode) == IF mode = "array" THEN "potential" ELSE "step"

InitDrive ==
    \E run \in Runs, kind \in Kinds, tau \in {Q(2), Q(4)},
       thr \in {Q(1), Q(-2)}, syn \in {DriveSynapses1, DriveSynapses2},
       i \in {Q(0), Q(1), <<3, 2>>, Q(2), Q(3)} :
        /\ kind # "AddaptiveELIF" => run.t_numpy
        /\ Less(Q(run.dt), tau) \/ Q(run.dt) = tau
        /\ pc = At(FirstPhase(run.mode), 1)
        /\ Constructed(
             <<NewNeuron(kind, tau, thr, ConstantCurrent(i, MaxDriveT + 1),
                         NoRegularize, MaxDriveT + 2, syn),
               NewNeuron("LIF", tau, Q(1), ConstantCurrent(Q(0), MaxDriveT + 1),
                         NoRegularize, MaxDriveT + 2, DriveSynapses2)>>,
             run)

\* One operation of the loop on the neuron whose turn it is.
Driven(phase, next) ==
    /\ pc.phase = phase
    /\ err = "none"
    /\ calls' = calls + 1
    /\ pc' = At(next, pc.n)
    /\ UNCHANGED t

DriveComputePotential == Driven("potential", "presyn") /\ compute_potential(pc.n)

DriveApplyPreSynaptic == Driven("presyn", "spike") /\ apply_pre_synaptic(pc.n)

DriveComputeSpike == Driven("spike", "next") /\ compute_spike(pc.n)

DriveStep == Driven("step", "next") /\ step(pc.n)

\* On to the next neuron of this tick, or to the next tick, or out of the loop.
DriveNext ==
    /\ pc.phase = "next"
    /\ err = "none"
    /\ IF pc.n + 1 \in Neurons
       THEN pc' = At(FirstPhase(sim.mode), pc.n + 1) /\ t' = t
       ELSE IF t + dt <= MaxDriveT
       THEN pc' = At(FirstPhase(sim.mode), 1) /\ t' = t + dt
       ELSE pc' = At("done", 0) /\ t' = t
    /\ UNCHANGED <<neuron, threshold, is_inh, u, w, spike_times, potential_list,
                   input, input_acc, sim, calls, err, last>>

NextDrive ==
    \/ DriveComputePotential
    \/ DriveApplyPreSynaptic
    \/ DriveComputeSpike
    \/ DriveStep
    \/ DriveNext

\* The loop never pauses of its own accord: it runs until it is done.
SpecDrive == InitDrive /\ [][NextDrive]_vars /\ WF_vars(NextDrive)

(* ------------------------------ claims -------------------------------- *)
\* The step is a call of one of the operations ops.
Called(ops) == calls' = calls + 1 /\ last'.op \in ops

Tail2(s) == SubSeq(s, Len(s) - 1, Len(s))

IsPrefix(x, y) == Len(x) <= Len(y) /\ SubSeq(y, 1, Len(x)) = x

SynIdx(n) == 1..Len(neuron[n].target_synapses)

Syn(n, k) == neuron[n].target_synapses[k]

\* The step index holding time t + d + dt: the j with j*dt <= t+d+dt < (j+1)*dt.
SlotOf(time, syn) ==
    CHOOSE j \in 0..(time + syn.delay + dt) :
        /\ j * dt <= time + syn.delay + dt
        /\ time + syn.delay + dt < (j + 1) * dt

\* Synapse k of n passes the boundary check of a spike at time.
Accepted(n, time, k) == time + Syn(n, k).delay + dt < neuron[n].duration

\* The first accepted synapse whose slot lies outside the postsynaptic array
\* (the delivery raises there), or one past the last synapse.
FirstRaise(n, time) ==
    LET bad == {k \in SynIdx(n) : /\ Accepted(n, time, k)
                                  /\ SlotOf(time, Syn(n, k)) >= Len(input[Syn(n, k).post])}
    IN  IF bad = {} THEN Len(neuron[n].target_synapses) + 1
        ELSE CHOOSE k \in bad : \A j \in bad : k <= j

\* The synapses of n that a spike at time delivers through, to neuron p.
DeliveredTo(n, time, p) ==
    {k \in SynIdx(n) : /\ Syn(n, k).post = p
                       /\ Accepted(n, time, k)
                       /\ k < FirstRaise(n, time)}

\* +weight of an excitatory neuron, -weight of an inhibitory one.
SignedWeight(n, k) == IF is_inh[n] THEN Neg(Syn(n, k).w) ELSE Syn(n, k).w

RECURSIVE SumOfWeights(_, _)
SumOfWeights(n, K) ==
    IF K = {} THEN Q(0)
    ELSE LET k == CHOOSE x \in K : TRUE
         IN  Add(SignedWeight(n, k), SumOfWeights(n, K \ {k}))

\* C1, as claimed: right after a compute_spike or step call that recorded a
\* spike, the last two entries of potential_list are the neuron's threshold
\* and u_rest.
C1_Original ==
    (last.op \in {"compute_spike", "step"} /\ last.spiked) =>
        /\ Len(potential_list[last.n]) >= 2
        /\ Tail2(potential_list[last.n]) =
               <<threshold[last.n], neuron[last.n].u_rest>>

\* C1, amended: a compute_spike or step call that records a spike leaves as
\* the last two entries of potential_list the threshold the neuron had when
\* the call was made (before the call's regularization update), then u_rest.
C1_ClampThenReset ==
    [][(Called({"compute_spike", "step"}) /\ last'.spiked) =>
        /\ Len(potential_list'[last'.n]) >= 2
        /\ Tail2(potential_list'[last'.n]) =
               <<threshold[last'.n], neuron[last'.n].u_rest>>]_vars

C1_Witness ==
    /\ last.op = "compute_spike"
    /\ last.spiked
    /\ Regularized(last.n)
    /\ err = "none"
    /\ threshold[last.n] # neuron[last.n].threshold

\* C2, as claimed: potential_list and spike_times are append-only, every
\* operation only extends them.
C2_Original ==
    [][\A n \in Neurons :
        /\ IsPrefix(potential_list[n], potential_list'[n])
        /\ IsPrefix(spike_times[n], spike_times'[n])]_vars

\* C2, amended: spike_times is append-only; potential_list never gets
\* shorter and every entry but its last one is kept as it is (the last one
\* may be overwritten in place).
C2_AppendOnlyBelowLast ==
    [][\A n \in Neurons :
        /\ IsPrefix(spike_times[n], spike_times'[n])
        /\ Len(potential_list[n]) <= Len(potential_list'[n])
        /\ IsPrefix(Front(potential_list[n]), potential_list'[n])]_vars

C2_Witness ==
    /\ last.op = "apply_pre_synaptic"
    /\ Len(potential_list[last.n]) >= 2
    /\ input[last.n][StepIndex(last.t) + 1] # Q(0)

\* C3: a compute_spike call that records a spike changes, in each neuron's
\* input array, exactly the entries at the step index of t + d + dt of the
\* synapses it delivers through, one entry per synapse and no earlier or
\* other entry; a call that records no spike changes none.
C3_DeliveryIndex ==
    [][Called({"compute_spike"}) =>
        \A p \in Neurons :
            /\ Len(input'[p]) = Len(input[p])
            /\ {j \in 1..Len(input[p]) : input'[p][j] # input[p][j]} =
                   IF last'.spiked
                   THEN {SlotOf(t, Syn(last'.n, k)) + 1 :
                            k \in DeliveredTo(last'.n, t, p)}
                   ELSE {}]_vars

C3_Witness ==
    /\ last.op = "compute_spike"
    /\ last.spiked
    /\ last.n = 1
    /\ err = "none"
    /\ sim.dt = 2
    /\ input[2][2] # Q(0)
    /\ input[2][1] = Q(0)

\* C4, as claimed: the step index a spike writes in a postsynaptic input
\* array is below that neuron's duration, and a delivery beyond it is
\* dropped without an error.
C4_Claim ==
    /\ err = "none"
    /\ (last.op = "compute_spike" /\ last.spiked) =>
           \A k \in SynIdx(last.n) :
               Due(last.n, last.t, Syn(last.n, k)) =>
                   DeliveryIndex(last.t, Syn(last.n, k)) <
                       neuron[Syn(last.n, k).post].duration

\* C5: a spike adds to each postsynaptic input the weights of the synapses
\* it is delivered through, +weight from an excitatory neuron and -weight
\* from an inhibitory one: per array entry in compute_spike, to the scalar
\* accumulator (or to every array entry) in step.
C5_SignedContribution ==
    [][(Called({"compute_spike", "step"}) /\ last'.spiked) =>
        LET n == last'.n IN
        \A p \in Neurons :
            IF last'.op = "compute_spike"
            THEN \A j \in 1..Len(input[p]) :
                    input'[p][j] =
                        Add(input[p][j],
                            SumOfWeights(n, {k \in DeliveredTo(n, t, p) :
                                                SlotOf(t, Syn(n, k)) + 1 = j}))
            ELSE LET total == SumOfWeights(n, {k \in SynIdx(n) : Syn(n, k).post = p})
                 IN  /\ sim.mode = "scalar" => input_acc'[p] = Add(input_acc[p], total)
                     /\ \A j \in 1..Len(input[p]) :
                            input'[p][j] = Add(input[p][j], total)]_vars

C5_Witness ==
    /\ last.op = "compute_spike"
    /\ last.spiked
    /\ is_inh[last.n]
    /\ \E p \in Neurons : \E j \in 1..Len(input[p]) : Less(input[p][j], Q(0))

\* C6: a compute_spike call made while the last recorded potential is below
\* threshold changes neither spike_times nor potential_list nor any input,
\* and leaves the neuron's potential equal to that last recorded potential.
C6_NoSpikeBelowThreshold ==
    [][(/\ Called({"compute_spike"})
        /\ Less(Last(potential_list[last'.n]), threshold[last'.n])) =>
        /\ spike_times' = spike_times
        /\ potential_list' = potential_list
        /\ input' = input
        /\ input_acc' = input_acc
        /\ ~last'.spiked
        /\ u'[last'.n] = Last(potential_list[last'.n])]_vars

C6_Witness ==
    /\ last.op = "compute_spike"
    /\ ~last.spiked
    /\ u[last.n] # neuron[last.n].u_rest
    /\ u[last.n] = Last(potential_list[last.n])

\* C7, as claimed: only compute_spike changes threshold, and only under
\* regularization: by +regularize[0] when the call recorded a spike, by
\* -regularize[1] otherwise; every other call leaves it as it is.
C7_Claim ==
    [][calls' = calls + 1 =>
        \A n \in Neurons :
            threshold'[n] =
                IF last'.op = "compute_spike" /\ last'.n = n /\ Regularized(n)
                THEN IF last'.spiked
                     THEN Add(threshold[n], neuron[n].regularize[1])
                     ELSE Sub(threshold[n], neuron[n].regularize[2])
                ELSE threshold[n]]_vars

\* C8, as claimed: every compute_spike or step call of an AddaptiveELIF
\* neuron moves w to w + dt/tau_w * (a*(U - u_rest) - w + b*tau_w*s), with U
\* the potential the integration started from and s = 1 exactly when the
\* neuron has recorded a spike at the time t of the call.
C8_Claim ==
    [][(/\ Called({"compute_spike", "step"})
        /\ neuron[last'.n].kind = "AddaptiveELIF") =>
        LET n == last'.n
            s == IF \E k \in 1..Len(spike_times'[n]) : spike_times'[n][k] = t
                 THEN Q(1) ELSE Q(0)
        IN  w'[n] =
                Add(w[n],
                    Mul(Div(Q(dt), neuron[n].tau_w),
                        Add(Sub(Mul(neuron[n].a, Sub(u[n], neuron[n].u_rest)), w[n]),
                            Mul(Mul(neuron[n].b, neuron[n].tau_w), s))))]_vars

\* No synapse of the network ends at neuron n.
NoSynapticInput(n) ==
    \A m \in Neurons : \A k \in SynIdx(m) : Syn(m, k).post # n

\* Neuron n is an LIF neuron without regularization, resting below its
\* threshold, that receives nothing but the constant current i.
IsolatedLIF(n, i) ==
    /\ neuron[n].kind = "LIF"
    /\ ~Regularized(n)
    /\ NoSynapticInput(n)
    /\ Less(neuron[n].u_rest, neuron[n].threshold)
    /\ \A k \in 1..Len(neuron[n].current_list) : neuron[n].current_list[k] = i

\* The constant currents that carry the resting neuron n over its threshold:
\* u_rest + r*i > threshold.
Suprathreshold(n) ==
    {i \in {neuron[n].current_list[1]} :
        /\ IsolatedLIF(n, i)
        /\ Less(neuron[n].threshold, Add(neuron[n].u_rest, Mul(neuron[n].r, i)))}

\* Every recorded potential below threshold is followed by a larger one.
Rising(n) ==
    \A j \in 1..(Len(potential_list[n]) - 1) :
        Less(potential_list[n][j], threshold[n]) =>
            Less(potential_list[n][j], potential_list[n][j + 1])

\* C9: an LIF neuron driven by a constant current with u_rest + r*i >
\* threshold (0 < dt/tau <= 1) records strictly increasing potentials until
\* one reaches threshold; the call that finds it there appends its time t to
\* spike_times and leaves u_rest as the last recorded potential; and a spike
\* has been recorded by the time the loop is done.
C9_RiseThenSpike ==
    /\ [](\A n \in Neurons :
            Suprathreshold(n) # {} =>
                /\ Rising(n)
                /\ pc.phase = "done" => spike_times[n] # <<>>)
    /\ [][\A n \in Neurons :
            (/\ Suprathreshold(n) # {}
             /\ Called({"compute_spike", "step"})
             /\ last'.n = n) =>
                IF last'.spiked
                THEN /\ spike_times'[n] = Append(spike_times[n], t)
                     /\ Last(potential_list'[n]) = neuron[n].u_rest
                     /\ Tail2(potential_list'[n])[1] = threshold[n]
                ELSE /\ spike_times'[n] = spike_times[n]
                     /\ Less(Last(potential_list'[n]), threshold[n])]_vars

C9_Witness ==
    /\ Suprathreshold(1) # {}
    /\ spike_times[1] = <<3>>
    /\ Len(potential_list[1]) = 5

\* C10: an LIF neuron resting below threshold, with a current source that is
\* zero at every step and no synaptic input, records no potential other than
\* u_rest and never a spike, in either stepping mode.
C10_RestsForever ==
    \A n \in Neurons :
        IsolatedLIF(n, Q(0)) =>
            /\ spike_times[n] = <<>>
            /\ \A j \in 1..Len(potential_list[n]) :
                   potential_list[n][j] = neuron[n].u_rest
            /\ u[n] = neuron[n].u_rest

C10_Witness ==
    /\ IsolatedLIF(1, Q(0))
    /\ pc.phase = "done"
    /\ Len(potential_list[1]) >= 3

(* ------------------------------ C11 ----------------------------------- *)
\* C11 as stated: in every state with a non-empty potential_list, its last
\* element is the neuron's current potential _u.  compute_potential appends
\* the new value and apply_pre_synaptic edits it while _u still holds the
\* value of the previous tick, so the state between them and compute_spike
\* violates it.
C11_Original ==
    \A n \in Neurons :
        Len(potential_list[n]) > 0 => Last(potential_list[n]) = u[n]

\* C11, amended: a compute_spike or step call that returns leaves _u equal to
\* the last element of potential_list; a compute_spike call ended by the
\* IndexError of the delivery leaves _u as it was.
C11_CommittedPotential ==
    [][Called({"compute_spike", "step"}) =>
        LET n == last'.n IN
        IF err' = "none"
        THEN Last(potential_list'[n]) = u'[n]
        ELSE u'[n] = u[n]]_vars

\* A step call that recorded a spike and left the reset potential both at the
\* end of potential_list and in _u.
C11_Witness ==
    /\ last.op = "step"
    /\ last.spiked
    /\ err = "none"
    /\ u[last.n] = neuron[last.n].u_rest
    /\ Last(potential_list[last.n]) = u[last.n]

(* ------------------------------ C12 ----------------------------------- *)
\* The contribution waiting for neuron n at the current tick: the entry of
\* its input array at the step index, or its scalar accumulator.
Delivered(n) ==
    IF sim.mode = "array" THEN input[n][StepIndex(t) + 1] ELSE input_acc[n]

\* potential_list of neuron n after its operations of the current tick in the
\* run that differs only by Delivered(n) being zero: integration from the
\* same _u, then the threshold test.  In array mode the state is read just
\* before compute_spike, where the last entry is the one of this tick.
WithoutContribution(n) ==
    LET kept == IF sim.mode = "array" THEN Front(potential_list[n])
                                      ELSE potential_list[n]
        un == new_u(n, current(n, StepIndex(t)))
    IN  IF Fires(un, threshold[n]) THEN Spiked(kept, n) ELSE Append(kept, un)

\* C12 as stated: when a nonzero contribution was delivered to the
\* postsynaptic neuron for a tick, the potential it records for that tick
\* differs from the one of the run without the contribution, once
\* compute_spike (array mode) or step (scalar mode) has run.
C12_Claim ==
    [][(/\ Called({"compute_spike", "step"})
        /\ last'.n = 2
        /\ Delivered(2) # Q(0))
       => potential_list'[2] # WithoutContribution(2)]_vars

(* ------------------------------ C13 ----------------------------------- *)
\* U + (dt / tau) * (-(U - u_rest) + r * I) for neuron n, with U its current
\* potential and I the entry of its current source at step t / dt.
LeakyUpdate(n) ==
    LET U == u[n]
        I == neuron[n].current_list[(t \div dt) + 1]
    IN  Add(U, Div(Mul(Q(dt), Sub(Mul(neuron[n].r, I), Sub(U, neuron[n].u_rest))),
                   neuron[n].tau))

\* C13: compute_potential(t, dt) on a LIF neuron appends exactly
\* U + dt/tau * (-(U - u_rest) + r*I) to its potential_list and returns it;
\* spike_times, every threshold, every earlier entry of every potential_list
\* and every input buffer stay as they were, also when the new value is at
\* or above the threshold.
C13_IntegrateOnly ==
    [][(Called({"compute_potential"}) /\ neuron[last'.n].kind = "LIF") =>
        /\ potential_list' =
             [potential_list EXCEPT ![last'.n] = Append(@, LeakyUpdate(last'.n))]
        /\ last'.ret = LeakyUpdate(last'.n)
        /\ UNCHANGED <<spike_times, threshold, input, input_acc>>]_vars

\* compute_potential left a value at or above the threshold at the end of the
\* list of a LIF neuron that has recorded no spike.
C13_Witness ==
    /\ last.op = "compute_potential"
    /\ neuron[last.n].kind = "LIF"
    /\ last.ret = Last(potential_list[last.n])
    /\ Geq(last.ret, threshold[last.n])
    /\ spike_times[last.n] = <<>>

(* ------------------------------ C14 ----------------------------------- *)
\* C14: in the synchronous loop, which advances t by dt after every neuron
\* had its compute_spike or step of the tick, the spike_times of a neuron
\* with u_rest below its threshold are strictly increasing: they never go
\* back in time and hold no time twice.
C14_SpikeTimesIncrease ==
    \A n \in Neurons :
        Less(neuron[n].u_rest, neuron[n].threshold) =>
            \A j, k \in 1..Len(spike_times[n]) :
                j < k => spike_times[n][j] < spike_times[n][k]

\* A neuron with u_rest below its threshold has recorded three spikes by
\* the end of the run.
C14_Witness ==
    /\ pc.phase = "done"
    /\ \E n \in Neurons :
        /\ Less(neuron[n].u_rest, neuron[n].threshold)
        /\ Len(spike_times[n]) >= 3

(* ------------------------------ C15 ----------------------------------- *)
\* C15 as stated: a neuron constructed with its threshold below u_rest is
\* rejected at construction and never stepped, so it never records a
\* potential or a spike.  The constructors assign their arguments and
\* compare nothing, and the loop steps such a neuron like any other.
C15_Claim ==
    \A n \in Neurons :
        Less(neuron[n].threshold, neuron[n].u_rest) =>
            /\ potential_list[n] = <<>>
            /\ spike_times[n] = <<>>

(* ------------------------------ C16 ----------------------------------- *)
\* What compute_potential(t, dt) alone appends for neuron n when the entry of
\* its current source at step t / dt is increased by the entry of its input
\* buffer at that step.
WithCurrentIncreased(n) ==
    LET U == u[n]
        I == Add(neuron[n].current_list[(t \div dt) + 1],
                 input[n][(t \div dt) + 1])
    IN  Add(U, Div(Mul(Q(dt), Sub(Mul(neuron[n].r, I), Sub(U, neuron[n].u_rest))),
                   neuron[n].tau))

\* C16: apply_pre_synaptic(t, dt) called on a LIF neuron right after its
\* compute_potential(t, dt) leaves WithCurrentIncreased as the last recorded
\* potential and returns the correction input * r * dt / tau; any
\* apply_pre_synaptic call keeps the length and the earlier entries of
\* potential_list, spike_times, the threshold and the input buffers.
C16_InputAsCurrent ==
    [][Called({"apply_pre_synaptic"}) =>
        LET n == last'.n
            x == input[n][(t \div dt) + 1]
        IN  /\ Len(potential_list'[n]) = Len(potential_list[n])
            /\ \A m \in Neurons : \A k \in 1..Len(potential_list[m]) :
                 (m # n \/ k < Len(potential_list[n]))
                     => potential_list'[m][k] = potential_list[m][k]
            /\ UNCHANGED <<spike_times, threshold, input, input_acc>>
            /\ last'.ret = Div(Mul(Mul(x, neuron[n].r), Q(dt)), neuron[n].tau)
            /\ (/\ neuron[n].kind = "LIF"
                /\ last.op = "compute_potential"
                /\ last.n = n
                /\ last.t = t)
               => Last(potential_list'[n]) = WithCurrentIncreased(n)]_vars

\* apply_pre_synaptic folded a nonzero buffered input into the potential that
\* compute_potential had just appended for a LIF neuron.
C16_Witness ==
    /\ last.op = "apply_pre_synaptic"
    /\ neuron[last.n].kind = "LIF"
    /\ input[last.n][(t \div dt) + 1] # Q(0)
    /\ last.ret # Q(0)
    /\ Last(potential_list[last.n]) = WithCurrentIncreased(last.n)

(* ------------------------------ C17 ----------------------------------- *)
\* C17: reset(t, dt, alpha) assigns nothing but entries of the neuron's own
\* input buffer at the zero-based indices t/dt + 1 .. t/dt + 5 that are below
\* its duration, and each entry it changes grows by alpha times the updated
\* entry before it; the entry at t/dt, the earlier ones, the length of the
\* buffer, potential_list, spike_times, the thresholds and the other neuron
\* stay as they were.
C17_ResetFrame ==
    [][Called({"reset"}) =>
        \E alpha \in ResetAlphas :
            LET n == last'.n
                idx == t \div dt
            IN  /\ \A m \in Neurons \ {n} : input'[m] = input[m]
                /\ Len(input'[n]) = Len(input[n])
                /\ Len(input'[n]) <= neuron[n].duration
                /\ \A j \in 0..(Len(input[n]) - 1) :
                     \/ input'[n][j + 1] = input[n][j + 1]
                     \/ /\ j \in (idx + 1)..(idx + ResetWindow)
                        /\ j < neuron[n].duration
                        /\ input'[n][j + 1] =
                             Add(input[n][j + 1], Mul(alpha, input'[n][j]))
                /\ UNCHANGED <<potential_list, spike_times, threshold, u, w,
                               input_acc>>]_vars

\* reset changed two consecutive entries after the one of the current step.
C17_Witness ==
    /\ last.op = "reset"
    /\ LET n == last.n
           idx == t \div dt
       IN  /\ Len(input[n]) >= idx + 3
           /\ input[n][idx + 1] # Q(0)
           /\ input[n][idx + 2] # input[n][idx + 1]
           /\ input[n][idx + 3] # input[n][idx + 2]

(* ------------------------------ C18 ----------------------------------- *)
\* The entries of a sequence but its last, written without Front.
ButLast(s) == [k \in 1..(Len(s) - 1) |-> s[k]]

\* The state is the one compute_potential(t, dt) on neuron n leads to from
\* the state that differs only by the last entry of n's potential_list being
\* absent: _u and w are those compute_potential read.
JustIntegrated(n) ==
    /\ Len(potential_list[n]) > 0
    /\ Last(potential_list[n]) = new_u(n, current(n, StepIndex(t)))

\* C18: for a neuron of any variant without regularization and without
\* outgoing synapses, compute_spike(t, dt) right after compute_potential(t, dt)
\* ends with the potential_list, spike_times, _u and w that step(t, dt) gives
\* from the state before the compute_potential.
C18_StepEquivalence ==
    [][(/\ Called({"compute_spike"})
        /\ ~Regularized(last'.n)
        /\ neuron[last'.n].target_synapses = <<>>
        /\ JustIntegrated(last'.n))
       => LET n == last'.n
              s == StepOutcome(n, ButLast(potential_list[n]))
          IN  /\ potential_list'[n] = s.potential_list
              /\ spike_times'[n] = s.spike_times
              /\ u'[n] = s.u
              /\ w' = Adapted(n, s.spike_times, t)
              /\ last'.spiked = s.fired]_vars

\* compute_spike recorded a spike for an adaptive neuron that has no outgoing
\* synapse, and its adaptation variable moved.
C18_Witness ==
    /\ last.op = "compute_spike"
    /\ last.spiked
    /\ neuron[last.n].kind = "AddaptiveELIF"
    /\ neuron[last.n].target_synapses = <<>>
    /\ w[last.n] # neuron[last.n].w

(* ------------------------------ C19 ----------------------------------- *)
\* The ticks neuron n has completed in the synchronous loop: those before the
\* current time, and the current one once its compute_spike or step is done.
TicksDone(n) ==
    (t \div dt)
    + (IF \/ pc.phase = "done"
          \/ pc.n > n
          \/ (pc.n = n /\ pc.phase = "next")
       THEN 1 ELSE 0)

\* Neuron n is between the operations of one tick.
MidTick(n) == pc.n = n /\ pc.phase \in {"presyn", "spike"}

\* C19: after n ticks from construction, in array mode as in scalar mode, the
\* length of potential_list is n plus the length of spike_times.
C19_LengthLaw ==
    \A n \in Neurons :
        ~MidTick(n) =>
            Len(potential_list[n]) = TicksDone(n) + Len(spike_times[n])

\* At the end of a run a neuron has recorded a spike in some ticks and none
\* in others.
C19_Witness ==
    /\ pc.phase = "done"
    /\ \E n \in Neurons :
        /\ Len(spike_times[n]) >= 2
        /\ Len(spike_times[n]) < TicksDone(n)
        /\ Len(potential_list[n]) = TicksDone(n) + Len(spike_times[n])

====
